---- MODULE Spec2Model ----
(***************************************************************************)
(* FeatureBuffer.hh: a circular buffer of feature vectors (FeatureBuffer)  *)
(* and the bounds-checked accessor of one vector (FeatureVec).             *)
(*                                                                         *)
(* The values of type int keep their 32-bit width.  The std::vector<float> *)
(* m_buffer is a size and the elements that differ from 0.0f (every other  *)
(* element below the size is 0.0f), so that a vector of 2^31 - 1 elements  *)
(* is a state like any other.  A float value is a small number: the code   *)
(* stores and loads floats and never computes with them.                   *)
(***************************************************************************)
EXTENDS Integers, FiniteSets

VARIABLES
  m_dim,         \* FeatureBuffer::m_dim
  m_num_frames,  \* FeatureBuffer::m_num_frames
  m_buffer,      \* FeatureBuffer::m_buffer
  status,        \* "running", or "aborted" once the process has been stopped
  call,          \* the last call made: "resize", "read", "write", or "none"
  err,           \* what the last call threw, or NoError
  ret,           \* {x} after a call that read the float x, {} otherwise
  arg_a, arg_b,  \* the arguments of the last call of modulo alone
  result         \* {r} when that call returned r

buffer_vars == <<m_dim, m_num_frames, m_buffer, status, call, err, ret>>
modulo_vars == <<arg_a, arg_b, result>>
vars == <<buffer_vars, modulo_vars>>

(***************************************************************************)
(* Bounds of the model and the arguments the calls are made with.          *)
(***************************************************************************)
INT_MAX == 2147483647
INT_MIN == -INT_MAX - 1

\* resize is called with -1 .. MaxSize and INT_MAX, frames are
\* -1 .. MaxSize, INT_MIN and INT_MAX, indices are -1 .. MaxSize.
MaxSize == 2
\* A write leaves at most MaxCells elements that differ from 0.
MaxCells == 1
\* modulo alone is called with a in -MaxModA .. MaxModA and near INT_MIN and
\* INT_MAX, and b in 1 .. MaxModB, 65536 and INT_MAX.
MaxModA == 8
MaxModB == 5

SizeArgs == (-1 .. MaxSize) \cup {INT_MAX}
FrameArgs == (-1 .. MaxSize) \cup {INT_MIN, INT_MAX}
IndexArgs == -1 .. MaxSize
\* The float written; 0 is the value of a new element.
Values == {1}
ModuloA ==
  (-MaxModA .. MaxModA) \cup {INT_MIN, INT_MIN + 1, INT_MAX - 1, INT_MAX}
ModuloB == (1 .. MaxModB) \cup {65536, INT_MAX}

NoError == "none"
OutOfBounds == "FeatureVec out of bounds"
LengthError == "std::length_error"

(***************************************************************************)
(* int arithmetic.  a and b are non-negative ints.                         *)
(***************************************************************************)
MulFits(a, b) == a = 0 \/ b <= INT_MAX \div a

Byte(x, i) == (x \div (256 ^ i)) % 256

\* The low 32 bits of a * b, read as a two's complement int: what the
\* multiplication instruction leaves when the product does not fit.
MulWrap(a, b) ==
  LET c0 == Byte(a, 0) * Byte(b, 0)
      c1 == Byte(a, 0) * Byte(b, 1) + Byte(a, 1) * Byte(b, 0) + (c0 \div 256)
      c2 == Byte(a, 0) * Byte(b, 2) + Byte(a, 1) * Byte(b, 1)
              + Byte(a, 2) * Byte(b, 0) + (c1 \div 256)
      c3 == Byte(a, 0) * Byte(b, 3) + Byte(a, 1) * Byte(b, 2)
              + Byte(a, 2) * Byte(b, 1) + Byte(a, 3) * Byte(b, 0) + (c2 \div 256)
      low == (c2 % 256) * 65536 + (c1 % 256) * 256 + (c0 % 256)
      top == c3 % 256
  IN  IF top >= 128 THEN (top - 256) * 16777216 + low
      ELSE top * 16777216 + low

\* a % b of C++ for b > 0: the remainder has the sign of a.
Rem(a, b) ==
  LET r == a % b
  IN  IF a >= 0 \/ r = 0 THEN r ELSE r - b


\* int a * int b.  A product that does not fit is undefined behaviour; the
\* build that does not trap leaves the low 32 bits.
IntMul(a, b) == IF MulFits(a, b) THEN a * b ELSE MulWrap(a, b)

(***************************************************************************)
(* std::vector<float>                                                      *)
(***************************************************************************)
Vector(n) == [size |-> n, elems |-> [k \in {} |-> 0]]

At(vec, k) == IF k \in DOMAIN vec.elems THEN vec.elems[k] ELSE 0

\* A vector of n elements, all 0.0f, whatever vec held.
VecResizeCleared(vec, n) == Vector(n)

\* vector::resize(n): the first min(size, n) elements are kept, the elements
\* added are value-initialised (0.0f).
VecResize(vec, n) ==
  [size |-> n,
   elems |-> [k \in {j \in DOMAIN vec.elems : j < n} |-> vec.elems[k]]]

\* vec[k] = v, for k < size.
VecStore(vec, k, v) ==
  [size |-> vec.size,
   elems |-> [j \in IF v = 0 THEN DOMAIN vec.elems \ {k}
                    ELSE DOMAIN vec.elems \cup {k}
              |-> IF j = k THEN v ELSE vec.elems[j]]]

(***************************************************************************)
(* The outcome of a call on the FeatureBuffer obj: the process goes on or  *)
(* is stopped (abort() of a failed assert, a trap, a fault), the call      *)
(* threw err or nothing, it read the float in ret or none, and it leaves   *)
(* the FeatureBuffer obj.                                                  *)
(***************************************************************************)
Object(d, n, buf) == [m_dim |-> d, m_num_frames |-> n, m_buffer |-> buf]

Outcome(st, e, x, obj) == [status |-> st, err |-> e, ret |-> x, obj |-> obj]
Aborted(obj) == Outcome("aborted", NoError, {}, obj)
Thrown(e, obj) == Outcome("running", e, {}, obj)
Returned(x, obj) == Outcome("running", NoError, x, obj)

(***************************************************************************)
(* FeatureVec: a pointer into the buffer's storage (the offset of the      *)
(* element it points to, or NULL) and a dimension.                         *)
(***************************************************************************)
NULL == [null |-> TRUE, off |-> 0]
Addr(k) == [null |-> FALSE, off |-> k]

FeatureVec(ptr, d) == [m_ptr |-> ptr, m_dim |-> d]
DefaultFeatureVec == FeatureVec(NULL, 0)

\* The test of FeatureVec::operator[] with > for >=.
VecThrowsAbove(vec, index) == index < 0 \/ index > vec.m_dim

\* The test of the const operator[] and of the mutable one.
ConstVecThrows(vec, index) == index < 0 \/ index >= vec.m_dim
VecThrows(vec, index) == index < 0 \/ index >= vec.m_dim

VecDim(vec) == vec.m_dim

\* m_ptr[index] is an element of the storage buf (index >= 0).
Deref(buf, vec, index) ==
  /\ ~vec.m_ptr.null
  /\ vec.m_ptr.off >= 0
  /\ vec.m_ptr.off < buf.size
  /\ index < buf.size - vec.m_ptr.off

\* The outcomes of the load of m_ptr[index].  Outside the storage it is
\* undefined: a fault, or whatever the memory there holds.
LoadOutcomes(buf, vec, index) ==
  IF Deref(buf, vec, index)
  THEN {[abort |-> FALSE, val |-> At(buf, vec.m_ptr.off + index)]}
  ELSE {[abort |-> TRUE, val |-> 0]}
         \cup {[abort |-> FALSE, val |-> x] : x \in {0} \cup Values}

\* The outcomes of the store m_ptr[index] = v.  Outside the storage it is
\* undefined: a fault, or a store to memory that is no element of m_buffer.
StoreOutcomes(buf, vec, index, v) ==
  IF Deref(buf, vec, index)
  THEN {[abort |-> FALSE, buf |-> VecStore(buf, vec.m_ptr.off + index, v)]}
  ELSE {[abort |-> TRUE, buf |-> buf], [abort |-> FALSE, buf |-> buf]}

\* x = vec[index] through the const operator[], for a view vec of obj.
VecRead(obj, vec, index) ==
  IF ConstVecThrows(vec, index) THEN {Thrown(OutOfBounds, obj)}
  ELSE {IF o.abort THEN Aborted(obj) ELSE Returned({o.val}, obj) :
          o \in LoadOutcomes(obj.m_buffer, vec, index)}

\* x = vec[index] through the mutable operator[].
VecReadMut(obj, vec, index) ==
  IF VecThrows(vec, index) THEN {Thrown(OutOfBounds, obj)}
  ELSE {IF o.abort THEN Aborted(obj) ELSE Returned({o.val}, obj) :
          o \in LoadOutcomes(obj.m_buffer, vec, index)}

\* vec[index] = v through the mutable operator[].
VecWrite(obj, vec, index, v) ==
  IF VecThrows(vec, index) THEN {Thrown(OutOfBounds, obj)}
  ELSE {IF o.abort THEN Aborted(obj)
        ELSE Returned({}, Object(obj.m_dim, obj.m_num_frames, o.buf)) :
          o \in StoreOutcomes(obj.m_buffer, vec, index, v)}

(***************************************************************************)
(* FeatureBuffer                                                           *)
(***************************************************************************)
FeatureBuffer == Object(1, 1, Vector(1))

dim(obj) == obj.m_dim
num_frames(obj) == obj.m_num_frames

\* modulo without the correction of a negative remainder.
ModuloRemainder(a, b) == Rem(a, b)

modulo(a, b) ==
  LET r == Rem(a, b)
  IN  IF r < 0 THEN r + b ELSE r

\* The outcomes of FeatureVec(&m_buffer[index * m_dim], m_dim).  index * m_dim
\* that overflows, and m_buffer[k] with k >= size(), are undefined: the build
\* either stops there (a trapping multiplication, a checked operator[]) or
\* goes on with the address the wrapped product gives.
FrameOutcomes(obj, frame) ==
  LET index == modulo(frame, obj.m_num_frames)
      k == IntMul(index, obj.m_dim)
  IN  IF MulFits(index, obj.m_dim) /\ k < obj.m_buffer.size
      THEN {[abort |-> FALSE, vec |-> FeatureVec(Addr(k), obj.m_dim)]}
      ELSE {[abort |-> TRUE, vec |-> DefaultFeatureVec],
            [abort |-> FALSE, vec |-> FeatureVec(Addr(k), obj.m_dim)]}

ConstFrame(obj, frame) == FrameOutcomes(obj, frame)
Frame(obj, frame) == FrameOutcomes(obj, frame)

\* assert(num_frames > 0); assert(dim > 0); with >= for the second >.
ResizeAssertsNotNegative(n, d) == n > 0 /\ d >= 0

\* assert(num_frames > 0); assert(dim > 0);
ResizeAsserts(n, d) == n > 0 /\ d > 0

\* m_num_frames = num_frames; m_dim = dim; with the two sides crossed.
SetShapeCrossed(obj, n, d) == Object(n, d, obj.m_buffer)

\* m_num_frames = num_frames; m_dim = dim;
SetShape(obj, n, d) == Object(d, n, obj.m_buffer)

\* m_buffer.resize(m_num_frames * m_dim), on the outcome of SetShape.  The
\* product that overflows is undefined: the build wraps it, or traps.  The
\* int is converted to size_t: a negative one is above max_size() and
\* vector::resize throws std::length_error.
ResizeStorage(obj) ==
  LET size == IntMul(obj.m_num_frames, obj.m_dim)
  IN  {IF size >= 0
       THEN Returned({}, Object(obj.m_dim, obj.m_num_frames,
                                VecResize(obj.m_buffer, size)))
       ELSE Thrown(LengthError, obj)}
      \cup (IF MulFits(obj.m_num_frames, obj.m_dim) THEN {}
            ELSE {Aborted(obj)})

resize(obj, n, d) ==
  IF ~ResizeAsserts(n, d) THEN {Aborted(obj)}
  ELSE ResizeStorage(SetShape(obj, n, d))

\* x = obj[frame][index] on a const FeatureBuffer.
ReadExpr(obj, frame, index) ==
  UNION {IF o.abort THEN {Aborted(obj)} ELSE VecRead(obj, o.vec, index) :
           o \in ConstFrame(obj, frame)}

\* x = obj[frame][index] on a FeatureBuffer that is not const.
ReadMutExpr(obj, frame, index) ==
  UNION {IF o.abort THEN {Aborted(obj)} ELSE VecReadMut(obj, o.vec, index) :
           o \in Frame(obj, frame)}

\* obj[frame][index] = v.
WriteExpr(obj, frame, index, v) ==
  UNION {IF o.abort THEN {Aborted(obj)} ELSE VecWrite(obj, o.vec, index, v) :
           o \in Frame(obj, frame)}

(***************************************************************************)
(* The program: a FeatureBuffer and the calls made on it, one at a time.   *)
(***************************************************************************)
this == Object(m_dim, m_num_frames, m_buffer)

Init ==
  /\ m_dim = FeatureBuffer.m_dim
  /\ m_num_frames = FeatureBuffer.m_num_frames
  /\ m_buffer = FeatureBuffer.m_buffer
  /\ status = "running"
  /\ call = "none"
  /\ err = NoError
  /\ ret = {}
  /\ arg_a = 0
  /\ arg_b = 1
  /\ result = {}

Apply(o, name) ==
  /\ status' = o.status
  /\ call' = name
  /\ err' = o.err
  /\ ret' = o.ret
  /\ m_dim' = o.obj.m_dim
  /\ m_num_frames' = o.obj.m_num_frames
  /\ m_buffer' = o.obj.m_buffer
  /\ UNCHANGED modulo_vars

Resize(n, d) ==
  /\ status = "running"
  /\ \E o \in resize(this, n, d) : Apply(o, "resize")

Read(frame, index) ==
  /\ status = "running"
  /\ \E o \in ReadExpr(this, frame, index) : Apply(o, "read")

ReadMut(frame, index) ==
  /\ status = "running"
  /\ \E o \in ReadMutExpr(this, frame, index) : Apply(o, "read")

Write(frame, index, v) ==
  /\ status = "running"
  /\ \E o \in WriteExpr(this, frame, index, v) :
       /\ Cardinality(DOMAIN o.obj.m_buffer.elems) <= MaxCells
       /\ Apply(o, "write")

\* x = FeatureVec()[index] and FeatureVec()[index] = v: the default view.
ReadDefault(index) ==
  /\ status = "running"
  /\ \E o \in VecRead(this, DefaultFeatureVec, index) : Apply(o, "read")

WriteDefault(index, v) ==
  /\ status = "running"
  /\ \E o \in VecWrite(this, DefaultFeatureVec, index, v) : Apply(o, "write")

Next ==
  \/ \E n \in SizeArgs, d \in SizeArgs : Resize(n, d)
  \/ \E frame \in FrameArgs, index \in IndexArgs : Read(frame, index)
  \/ \E frame \in FrameArgs, index \in IndexArgs : ReadMut(frame, index)
  \/ \E frame \in FrameArgs, index \in IndexArgs, v \in Values :
       Write(frame, index, v)
  \/ \E index \in IndexArgs : ReadDefault(index)
  \/ \E index \in IndexArgs, v \in Values : WriteDefault(index, v)

Spec == Init /\ [][Next]_vars

(***************************************************************************)
(* modulo alone, on arguments over the whole range of int.                 *)
(***************************************************************************)
ModuloCall(a, b) ==
  /\ arg_a' = a
  /\ arg_b' = b
  /\ result' = {modulo(a, b)}
  /\ UNCHANGED buffer_vars

ModuloNext == \E a \in ModuloA, b \in ModuloB : ModuloCall(a, b)

ModuloSpec == Init /\ [][ModuloNext]_vars

(***************************************************************************)
(* The claims.  A claim about a call is stated of every outcome the call   *)
(* has in every state the program reaches.                                 *)
(***************************************************************************)
\* The floats x = obj[frame][index] can yield: none when the call throws or
\* the process stops.
ReadValues(obj, frame, index) ==
  UNION {o.ret : o \in {x \in ReadExpr(obj, frame, index) :
                          x.status = "running" /\ x.err = NoError}}

\* The outcomes of every access obj[frame][index], const or mutable.
BufferAccess(obj, frame, index) ==
  ReadExpr(obj, frame, index) \cup ReadMutExpr(obj, frame, index)
    \cup UNION {WriteExpr(obj, frame, index, v) : v \in {0} \cup Values}

\* The outcomes of every access FeatureVec()[index], const or mutable.
DefaultAccess(obj, index) ==
  VecRead(obj, DefaultFeatureVec, index)
    \cup VecReadMut(obj, DefaultFeatureVec, index)
    \cup UNION {VecWrite(obj, DefaultFeatureVec, index, v) : v \in {0} \cup Values}

\* k < a * b, for an int k and the product of two non-negative ints taken in
\* the integers.
BelowProduct(k, a, b) == IF MulFits(a, b) THEN k < a * b ELSE TRUE

\* a * b = c, the product taken in the integers.
ProductIs(a, b, c) == MulFits(a, b) /\ a * b = c

InRange(index) == index >= 0 /\ index < m_dim

(***************************************************************************)
(* C1: in a buffer of n frames of dimension d, a value v written at        *)
(* buffer[f][i], 0 <= i < d, is what a read of buffer[f'][i] returns for   *)
(* every frame f' congruent to f modulo n: the write and the read both     *)
(* complete, and the read yields v whatever the slot held before.          *)
(***************************************************************************)
C1_WriteThenRead ==
  status = "running" =>
    \A f \in FrameArgs, f2 \in FrameArgs, i \in IndexArgs, v \in {0} \cup Values :
      InRange(i) /\ f % m_num_frames = f2 % m_num_frames =>
        \A w \in WriteExpr(this, f, i, v) :
          /\ w.status = "running" /\ w.err = NoError
          /\ \A r \in ReadExpr(w.obj, f2, i) :
               r.status = "running" /\ r.err = NoError /\ r.ret = {v}

(***************************************************************************)
(* C2: in every state of a running program the length of the backing       *)
(* storage is dim * num_frames.                                            *)
(***************************************************************************)
C2_StorageLength ==
  status = "running" => ProductIs(m_dim, m_num_frames, m_buffer.size)

(***************************************************************************)
(* C3: for every frame, the const and the mutable buffer[frame] return a   *)
(* view: its dim() is the buffer's dim(), and its values are the elements  *)
(* physical * dim .. physical * dim + dim - 1 of the storage, physical     *)
(* being frame modulo num_frames, all of them inside the storage.          *)
(***************************************************************************)
C3_FrameAccess ==
  status = "running" =>
    \A frame \in FrameArgs :
      \A o \in ConstFrame(this, frame) \cup Frame(this, frame) :
        LET physical == frame % m_num_frames
        IN  /\ ~o.abort
            /\ VecDim(o.vec) = dim(this)
            /\ ~o.vec.m_ptr.null
            /\ ProductIs(physical, m_dim, o.vec.m_ptr.off)
            /\ o.vec.m_ptr.off < m_buffer.size
            /\ m_dim - 1 < m_buffer.size - o.vec.m_ptr.off

(***************************************************************************)
(* C4: an access view[index] with index < 0 or index >= dim(), const or    *)
(* mutable, on a view of the buffer or on the default view, throws the     *)
(* bounds error and leaves the storage, dim and num_frames as they were;   *)
(* an access with 0 <= index < dim() does not throw it.  The view a        *)
(* buffer[frame] that returns gives has the dimension of the buffer, the   *)
(* default view has the dimension 0.                                       *)
(***************************************************************************)
C4_BoundsError ==
  status = "running" =>
    /\ \A frame \in FrameArgs, index \in IndexArgs :
         \A view \in {x \in ConstFrame(this, frame) \cup Frame(this, frame) :
                        ~x.abort} :
           \A o \in VecRead(this, view.vec, index)
                      \cup VecReadMut(this, view.vec, index)
                      \cup VecWrite(this, view.vec, index, 1) :
             IF index < 0 \/ index >= VecDim(view.vec)
             THEN o.status = "running" /\ o.err = OutOfBounds /\ o.obj = this
             ELSE o.err # OutOfBounds
    /\ \A frame \in FrameArgs, index \in IndexArgs :
         \A o \in BufferAccess(this, frame, index) :
           IF index < 0 \/ index >= dim(this)
           THEN o.status = "running" => o.err = OutOfBounds /\ o.obj = this
           ELSE o.err # OutOfBounds
    /\ \A index \in IndexArgs :
         \A o \in DefaultAccess(this, index) :
           /\ VecDim(DefaultFeatureVec) = 0
           /\ o.status = "running" /\ o.err = OutOfBounds /\ o.obj = this

\* The last call was an access to a view of dimension 2, and it threw the
\* bounds error.
C4_Witness ==
  /\ status = "running"
  /\ call \in {"read", "write"}
  /\ err = OutOfBounds
  /\ m_dim = 2
  /\ m_num_frames = 2
  /\ DOMAIN m_buffer.elems # {}

(***************************************************************************)
(* C5: dim() and num_frames() are 1 and 1 before any call, a resize with   *)
(* positive arguments makes them its dim and num_frames, and no other call *)
(* changes them.                                                           *)
(***************************************************************************)
C5_ShapeIsLatest ==
  /\ call = "none" => dim(this) = 1 /\ num_frames(this) = 1
  /\ status = "running" =>
       /\ \A n \in SizeArgs, d \in SizeArgs :
            n > 0 /\ d > 0 =>
              \A o \in resize(this, n, d) :
                dim(o.obj) = d /\ num_frames(o.obj) = n
       /\ \A frame \in FrameArgs, index \in IndexArgs :
            \A o \in BufferAccess(this, frame, index)
                       \cup DefaultAccess(this, index) :
              dim(o.obj) = dim(this) /\ num_frames(o.obj) = num_frames(this)

\* resize(2, 1) was the last call.
C5_Witness ==
  /\ status = "running"
  /\ call = "resize"
  /\ dim(this) = 1
  /\ num_frames(this) = 2
  /\ m_buffer.size = 2

C7_Modulo ==
  \A p \in result :
    /\ 0 <= p /\ p < arg_b
    /\ p = arg_a % arg_b
    /\ arg_a = -1 => p = arg_b - 1 /\ p = modulo(arg_b - 1, arg_b)
    /\ \A a \in ModuloA :
         modulo(a, arg_b) = p <=> a % arg_b = arg_a % arg_b

\* modulo(-1, 3) has returned 2.
C7_Witness == arg_a = -1 /\ arg_b = 3 /\ result = {2}

(***************************************************************************)
(* C8: a resize with num_frames <= 0 or dim <= 0 stops the process at the  *)
(* assertion: it does not return, it throws nothing, and dim, num_frames   *)
(* and the storage are as they were.                                       *)
(***************************************************************************)
C8_AssertHalts ==
  status = "running" =>
    \A n \in SizeArgs, d \in SizeArgs :
      n <= 0 \/ d <= 0 =>
        \A o \in resize(this, n, d) :
          o.status = "aborted" /\ o.err = NoError /\ o.obj = this

\* A resize has stopped the process on a buffer of 2 frames of dimension 2:
\* no product of its arguments overflowed, the assertion failed.
C8_Witness ==
  /\ status = "aborted"
  /\ call = "resize"
  /\ m_dim = 2
  /\ m_num_frames = 2
  /\ m_buffer.size = 4

(***************************************************************************)
(* C9: a write buffer[frame][index] = v with 0 <= index < dim completes    *)
(* and changes the one element at the flat offset                          *)
(* (frame mod num_frames) * dim + index: every other element of the        *)
(* storage, dim and num_frames keep their values.                          *)
(***************************************************************************)
C9_WriteOneElement ==
  status = "running" =>
    \A frame \in FrameArgs, index \in IndexArgs, v \in {0} \cup Values :
      InRange(index) =>
        \A o \in WriteExpr(this, frame, index, v) :
          LET physical == frame % m_num_frames
          IN  /\ o.status = "running" /\ o.err = NoError
              /\ dim(o.obj) = dim(this)
              /\ num_frames(o.obj) = num_frames(this)
              /\ MulFits(physical, m_dim)
              /\ index <= INT_MAX - physical * m_dim
              /\ physical * m_dim + index < m_buffer.size
              /\ o.obj.m_buffer
                   = VecStore(m_buffer, physical * m_dim + index, v)

(***************************************************************************)
(* C10: a resize(n, d) with positive arguments keeps the flat prefix of    *)
(* the storage and zero-fills the rest: every element at an offset below   *)
(* min(old dim * old num_frames, n * d) holds the value it held, every     *)
(* element at an offset from the old length on holds 0; the element of a   *)
(* default-constructed buffer is 0.                                        *)
(***************************************************************************)
C10_ResizeKeepsPrefix ==
  /\ call = "none" => m_buffer.size = 1 /\ At(m_buffer, 0) = 0
  /\ status = "running" =>
       \A n \in SizeArgs, d \in SizeArgs :
         n > 0 /\ d > 0 =>
           \A o \in resize(this, n, d) :
             o.status = "running" =>
               /\ \A k \in DOMAIN m_buffer.elems \cup {m_buffer.size - 1} :
                    BelowProduct(k, m_dim, m_num_frames) /\ BelowProduct(k, n, d)
                      => /\ k < o.obj.m_buffer.size
                         /\ At(o.obj.m_buffer, k) = At(m_buffer, k)
               /\ \A k \in DOMAIN o.obj.m_buffer.elems :
                    BelowProduct(k, m_dim, m_num_frames)

====
